---- MODULE Spec2Model ----
(***************************************************************************)
(* A model of the hx711-multi driver: the HX711 controller (hx711.py) that *)
(* clocks one or several ADCs over a shared SCK line, and the per-device   *)
(* ADC object (adc.py) that accumulates the bits of a reading and reduces  *)
(* a batch of readings to one measurement.                                 *)
(*                                                                         *)
(* Numbers.  Python ints and floats are modelled as exact rationals        *)
(* <<num, den>> in lowest terms with den > 0; None is <<0, 0>>.  A         *)
(* standard deviation s is carried as its square (the variance), and a     *)
(* ratio dev/s as its square, so that every comparison the code makes      *)
(* (s > 100, s = 0, ratio <= 2.0) is decided exactly on non-negative       *)
(* quantities.  Rounding of IEEE doubles is not modelled.                  *)
(***************************************************************************)
EXTENDS Integers, Sequences, FiniteSets, TLC

(***************************************************************************)
(* Bounds of the model (not program constants).                            *)
(***************************************************************************)
\* largest in-range readings_to_average an API call is given
MaxReadings == 3
\* largest retry_limit zero() is given
MaxRetry == 2
\* API calls made after construction in one behaviour
MaxCalls == 2
\* sum of the readings_to_average given to the API calls of one behaviour,
\* a call that runs a single cycle (power_up, reset) counting one
MaxTotalReadings == 4
\* the same sum in SpecCycle, which tries every constructor argument
MaxCycleReadings == 2
\* longest batch handed to the aggregation in SpecAgg
MaxBatch == 4
MaxStable == 5

(***************************************************************************)
(* Program constants.                                                      *)
(***************************************************************************)
\* range(20) of _prepare_to_read
POLL_LIMIT == 20
\* range(24) of _read
DATA_BITS == 24
\* upper limit of readings_to_average in read_raw / read_weight
READINGS_LIMIT == 10000
\* ADC._max_stdev
max_stdev == 100
\* ADC._max_number_of_stdev_from_med (2.0)
max_number_of_stdev_from_med == 2
\* the three reserved raw codes 0x800000, 0x7FFFFF, 0xFFFFFF
RAW_MIN == 8388608
RAW_MAX == 8388607
RAW_ONES == 16777215

(***************************************************************************)
(* Exact rational arithmetic.                                              *)
(***************************************************************************)
None == <<0, 0>>

Abs(x) == IF x < 0 THEN -x ELSE x

RECURSIVE GCD(_, _)
GCD(a, b) == IF b = 0 THEN a ELSE GCD(b, a % b)

Rat(n, d) ==
  LET g == GCD(Abs(n), Abs(d))
      s == IF d < 0 THEN -1 ELSE 1
  IN <<(s * n) \div g, (s * d) \div g>>

IntRat(n) == <<n, 1>>

IsNone(x) == x[2] = 0

RAdd(a, b) ==
  LET g == GCD(a[2], b[2])
  IN Rat(a[1] * (b[2] \div g) + b[1] * (a[2] \div g), (a[2] \div g) * b[2])

RNeg(a) == <<-a[1], a[2]>>

RSub(a, b) == RAdd(a, RNeg(b))

RMul(a, b) ==
  LET g1 == GCD(Abs(a[1]), b[2])
      g2 == GCD(Abs(b[1]), a[2])
  IN Rat((a[1] \div g1) * (b[1] \div g2), (a[2] \div g2) * (b[2] \div g1))

\* a / b for b # 0
RDiv(a, b) == RMul(a, IF b[1] < 0 THEN <<-b[2], -b[1]>> ELSE <<b[2], b[1]>>)

RAbs(a) == <<Abs(a[1]), a[2]>>

RLe(a, b) == a[1] * b[2] <= b[1] * a[2]

RGt(a, b) == ~RLe(a, b)

\* Python truthiness of an optional number: None, 0 and 0.0 are falsy
Truthy(x) == ~IsNone(x) /\ x[1] # 0

RECURSIVE RSum(_)
RSum(xs) == IF xs = <<>> THEN IntRat(0) ELSE RAdd(xs[1], RSum(Tail(xs)))

(***************************************************************************)
(* Bit operations on non-negative Python ints.                             *)
(***************************************************************************)
RECURSIVE BitAnd(_, _)
BitAnd(a, b) ==
  IF a = 0 \/ b = 0 THEN 0
  ELSE (a % 2) * (b % 2) + 2 * BitAnd(a \div 2, b \div 2)

RECURSIVE BitOr(_, _)
BitOr(a, b) ==
  IF a = 0 /\ b = 0 THEN 0
  ELSE (IF a % 2 = 1 \/ b % 2 = 1 THEN 1 ELSE 0) + 2 * BitOr(a \div 2, b \div 2)

RECURSIVE BitXor(_, _)
BitXor(a, b) ==
  IF a = 0 /\ b = 0 THEN 0
  ELSE (((a % 2) + (b % 2)) % 2) + 2 * BitXor(a \div 2, b \div 2)

RECURSIVE Pow2(_)
Pow2(n) == IF n = 0 THEN 1 ELSE 2 * Pow2(n - 1)

(***************************************************************************)
(* statistics.mean / median / stdev on sequences.                          *)
(***************************************************************************)
RECURSIVE Insert(_, _)
Insert(x, s) ==
  IF s = <<>> THEN <<x>>
  ELSE IF x <= s[1] THEN <<x>> \o s
  ELSE <<s[1]>> \o Insert(x, Tail(s))

RECURSIVE sorted(_)
sorted(s) == IF s = <<>> THEN <<>> ELSE Insert(s[1], sorted(Tail(s)))

\* statistics.median of a non-empty sequence of ints
median(data) ==
  LET s == sorted(data)
      n == Len(s)
  IN IF n % 2 = 1 THEN IntRat(s[(n \div 2) + 1])
     ELSE Rat(s[n \div 2] + s[(n \div 2) + 1], 2)

\* statistics.mean of a non-empty sequence of rationals
mean(xs) == RDiv(RSum(xs), IntRat(Len(xs)))

\* the square of statistics.stdev (the sample variance), Len(xs) >= 2
stdev_sq(xs) ==
  LET m == mean(xs)
      sq == [i \in 1..Len(xs) |-> RMul(RSub(xs[i], m), RSub(xs[i], m))]
  IN RDiv(RSum(sq), IntRat(Len(xs) - 1))

(***************************************************************************)
(* ADC (adc.py).                                                           *)
(***************************************************************************)
\* ADC.__init__
NewADC(pin) ==
  [ dout_pin |-> pin,
    zero_offset |-> IntRat(0),
    weight_multiple |-> IntRat(1),
    ready |-> FALSE,
    current_raw_read |-> 0,
    raw_reads |-> <<>>,
    reads |-> <<>>,
    reads_filtered |-> <<>>,
    read_med |-> None,
    devs_from_med |-> <<>>,
    read_stdev_sq |-> IntRat(0),
    ratios_to_stdev_sq |-> <<>>,
    measurement |-> None,
    measurement_from_zero |-> None,
    weight |-> None ]

\* ADC._init_raw_read
init_raw_read(a) == [a EXCEPT !.ready = FALSE, !.current_raw_read = 0]

\* a batch reset that also clears the zero offset
init_set_of_reads_and_offset(a) ==
  init_raw_read([a EXCEPT !.raw_reads = <<>>,
                          !.reads = <<>>,
                          !.reads_filtered = <<>>,
                          !.read_med = None,
                          !.devs_from_med = <<>>,
                          !.read_stdev_sq = IntRat(0),
                          !.ratios_to_stdev_sq = <<>>,
                          !.measurement = None,
                          !.measurement_from_zero = None,
                          !.zero_offset = IntRat(0)])

\* ADC._init_set_of_reads
init_set_of_reads(a) ==
  init_raw_read([a EXCEPT !.raw_reads = <<>>,
                          !.reads = <<>>,
                          !.reads_filtered = <<>>,
                          !.read_med = None,
                          !.devs_from_med = <<>>,
                          !.read_stdev_sq = IntRat(0),
                          !.ratios_to_stdev_sq = <<>>,
                          !.measurement = None,
                          !.measurement_from_zero = None])

\* ADC._is_ready, given the level GPIO.input returns if it is sampled
is_ready(a, level) == IF a.ready THEN a ELSE [a EXCEPT !.ready = (level = 0)]

\* ADC._shift_and_read, given the bit GPIO.input returns
shift_and_read(a, bit) ==
  [a EXCEPT !.current_raw_read = BitOr(a.current_raw_read * 2, bit)]

\* convert_to_signed_value taking the one's complement: the "+ 1" is dropped
convert_without_increment(raw_value) ==
  IF raw_value \in {RAW_MIN, RAW_MAX, RAW_ONES} THEN None
  ELSE IF BitAnd(raw_value, RAW_MIN) # 0
       THEN IntRat(-BitXor(raw_value, RAW_ONES))
       ELSE IntRat(raw_value)

\* ADC.convert_to_signed_value
convert_to_signed_value(raw_value) ==
  IF raw_value \in {RAW_MIN, RAW_MAX, RAW_ONES} THEN None
  ELSE IF BitAnd(raw_value, RAW_MIN) # 0
       THEN IntRat(-(BitXor(raw_value, RAW_ONES) + 1))
       ELSE IntRat(raw_value)

\* ADC._finish_raw_read
finish_raw_read(a) ==
  [a EXCEPT !.raw_reads = Append(a.raw_reads, a.current_raw_read),
            !.reads = Append(a.reads, convert_to_signed_value(a.current_raw_read))]

\* the list comprehension testing the truth of r, which drops reads of 0
valid_reads_truthy(reads) ==
  LET present == SelectSeq(reads, Truthy)
  IN [i \in 1..Len(present) |-> present[i][1]]

\* the list comprehension of _calculate_measurement: the present ints of reads
valid_reads(reads) ==
  LET present == SelectSeq(reads, LAMBDA r : ~IsNone(r))
  IN [i \in 1..Len(present) |-> present[i][1]]

\* the ratio comparison made strict:  ratio < max_number_of_stdev_from_med
ratio_kept_strict(ratio_sq) ==
  ~RLe(IntRat(max_number_of_stdev_from_med * max_number_of_stdev_from_med), ratio_sq)

\* a filter that keeps only the values within one standard deviation
ratio_kept_within_one(ratio_sq) == RLe(ratio_sq, IntRat(1))

\* the comparison  ratio <= self._max_number_of_stdev_from_med  on squares
ratio_kept(ratio_sq) ==
  RLe(ratio_sq, IntRat(max_number_of_stdev_from_med * max_number_of_stdev_from_med))

\* a ceiling of ten times max_stdev
stdev_over_tenfold(sd_sq) == RGt(sd_sq, IntRat(100 * max_stdev * max_stdev))

\* the comparison  self._read_stdev > self._max_stdev  on squares
stdev_too_large(sd_sq) == RGt(sd_sq, IntRat(max_stdev * max_stdev))

\* zip(reads_filtered, ratios) filtered by ratio_kept
RECURSIVE zip_filter(_, _)
zip_filter(vals, ratios) ==
  IF vals = <<>> \/ ratios = <<>> THEN <<>>
  ELSE (IF ratio_kept(ratios[1]) THEN <<vals[1]>> ELSE <<>>)
       \o zip_filter(Tail(vals), Tail(ratios))

\* the tail of _calculate_measurement: filter by ratio, then the mean
filter_and_mean(a) ==
  LET new == zip_filter(a.reads_filtered, a.ratios_to_stdev_sq)
      a1 == [a EXCEPT !.reads_filtered = new]
  IN IF new = <<>> THEN [adc |-> a1, ret |-> FALSE]
     ELSE LET m == mean([i \in 1..Len(new) |-> IntRat(new[i])])
              mfz == RSub(m, a.zero_offset)
          IN [adc |-> [a1 EXCEPT !.measurement = m,
                                 !.measurement_from_zero = mfz,
                                 !.weight = RDiv(mfz, a.weight_multiple)],
              ret |-> TRUE]

\* ADC._calculate_measurement: the updated ADC and the returned bool
calculate_measurement(a) ==
  LET rf == valid_reads(a.reads)
      a1 == [a EXCEPT !.reads_filtered = rf]
  IN IF Len(rf) = 0 THEN [adc |-> a1, ret |-> FALSE]
     ELSE IF Len(rf) = 1
     THEN [adc |-> [a1 EXCEPT !.measurement = IntRat(rf[1])], ret |-> TRUE]
     ELSE LET med == median(rf)
              devs == [i \in 1..Len(rf) |-> RAbs(RSub(IntRat(rf[i]), med))]
              sd == stdev_sq(devs)
              a2 == [a1 EXCEPT !.read_med = med,
                               !.devs_from_med = devs,
                               !.read_stdev_sq = sd]
          IN IF stdev_too_large(sd)
             THEN filter_and_mean([a2 EXCEPT !.ready = FALSE])
             ELSE IF sd[1] # 0
             THEN filter_and_mean(
                    [a2 EXCEPT !.ratios_to_stdev_sq =
                       [i \in 1..Len(devs) |-> RDiv(RMul(devs[i], devs[i]), sd)]])
             ELSE [adc |-> [a2 EXCEPT !.measurement = med], ret |-> TRUE]

\* ADC.zero
adc_zero(a, offset) == [a EXCEPT !.zero_offset = offset]

\* ADC.zero_from_last_measurement raises ValueError unless measurement is truthy
zero_from_last_measurement_raises(a) == ~Truthy(a.measurement)

\* ADC.zero_from_last_measurement when it does not raise
zero_from_last_measurement(a) == adc_zero(a, a.measurement)

(***************************************************************************)
(* HX711 (hx711.py): state.                                                *)
(***************************************************************************)
VARIABLES
  single_adc,            \* HX711._single_adc: dout_pins was given as one int
  channel_A_gain,        \* HX711._channel_A_gain
  channel_select,        \* HX711._channel_select
  all_or_nothing,        \* HX711._all_or_nothing
  adcs,                  \* HX711._adcs: sequence of ADC records
  sck,                   \* level last written to the SCK pin
  pc,                    \* the statement the running call is at, "idle" if none
  stack,                 \* return labels of the calls in progress, innermost first
  polls,                 \* _prepare_to_read: iterations of the readiness loop run
  bit,                   \* _read: data bits completed in the 24-bit loop
  gain_i,                \* _write_channel_gain: extra pulses completed
  pulses,                \* clock pulses issued since the current cycle began
  shifts,                \* per device: _shift_and_read calls in the current cycle
  appended,              \* per device: _finish_raw_read calls in the current cycle
  read_result,           \* value returned by the last _read
  cycle,                 \* read_raw: cycles started in the current batch
  readings_to_average,   \* argument of read_raw / read_weight / zero
  use_prev_read,         \* argument of read_weight
  retry,                 \* zero: batches started
  retry_limit,           \* argument of zero
  readings,              \* zero: merged readings ([set |-> FALSE] is None)
  zero_before,           \* per device: zero_offset when the API call was made
  obtained,              \* per device: measurement behind its merged reading
  returned,              \* what the last finished call returned or raised
  api,                   \* the API call in progress or last finished
  calls,                 \* API calls made after construction
  budget,                \* readings the remaining API calls may still ask for
  weight_args            \* arguments of set_weight_multiples

config == <<single_adc, channel_A_gain, channel_select, all_or_nothing>>
cyclev == <<polls, bit, gain_i, pulses, shifts, appended, read_result>>
batchv == <<cycle, readings_to_average, use_prev_read>>
zerov == <<retry, retry_limit, readings, zero_before, obtained>>
apiv == <<api, calls, budget, weight_args>>
vars == <<config, adcs, sck, pc, stack, cyclev, batchv, zerov, returned, apiv>>

N == Len(adcs)
Devices == 1..N

(***************************************************************************)
(* Inputs.                                                                 *)
(***************************************************************************)
\* words a chip may shift out in a cycle: -2, 4 and the reserved code 0x7FFFFF
\* for a lone device; 2 and 4 for each of several devices
Samples(n) == IF n = 1 THEN {16777214, 4, 8388607} ELSE {2, 4}

\* constructor arguments: dout_pins (an int or a list of pin numbers),
\* channel_A_gain, channel_select, all_or_nothing
Config(single, pins, gain, channel, aon) ==
  [single |-> single, pins |-> pins, gain |-> gain, channel |-> channel, aon |-> aon]

\* every combination of constructor arguments with one or two data pins
AllConfigs ==
  { Config(p[1], p[2], g, ch, aon) :
      p \in {<<TRUE, <<5>> >>, <<FALSE, <<5>> >>, <<FALSE, <<5, 6>> >>},
      g \in {128, 64}, ch \in {"A", "B"}, aon \in BOOLEAN }

\* the constructor arguments the API sessions of Spec are run with
SessionConfigs ==
  { Config(TRUE, <<5>>, 128, "A", TRUE),
    Config(FALSE, <<5>>, 64, "A", FALSE),
    Config(FALSE, <<5, 6>>, 128, "B", TRUE) }

\* the clock pulses of a cycle (numbered from 1) that may take 60 us or longer:
\* the first, a middle and the last data pulse, and every gain pulse
SlowPulses == {1, 13, 24, 25, 26, 27}

\* readings_to_average values tried: the ends of the range as far as the bound
\* allows, and the values just outside it
ReadingsChoices == {0, 1, MaxReadings, READINGS_LIMIT + 1}

(***************************************************************************)
(* Return values and exceptions.                                           *)
(***************************************************************************)
RetNone == [kind |-> "None", b |-> FALSE, vals |-> <<>>, exc |-> ""]
RetBool(x) == [kind |-> "bool", b |-> x, vals |-> <<>>, exc |-> ""]
RetList(v) == [kind |-> "list", b |-> FALSE, vals |-> v, exc |-> ""]
RetScalar(x) == [kind |-> "scalar", b |-> FALSE, vals |-> <<x>>, exc |-> ""]
Raised(e) == [kind |-> "raise", b |-> FALSE, vals |-> <<>>, exc |-> e]

NoReadings == [set |-> FALSE, vals |-> <<>>]

\* an optional list argument: left at its default None, or given as a list
NotGiven == [given |-> FALSE, list |-> <<>>]
Given(l) == [given |-> TRUE, list |-> l]

\* the arguments of set_weight_multiples
WeightArgs(weight_multiples, adc_indices, dout_pins) ==
  [weight_multiples |-> weight_multiples, adc_indices |-> adc_indices,
   dout_pins |-> dout_pins]

NoWeightArgs == WeightArgs(<<>>, NotGiven, NotGiven)

\* arguments tried on ADCs as: one value per ADC (2, 3, ...) with the default
\* addressing, with the indices and with the pins listed forwards and
\* backwards; and the value 2 for the last ADC alone, by index and by pin
WeightChoices(as) ==
  LET n == Len(as)
      values == [k \in 1..n |-> IntRat(k + 1)]
      forwards == [k \in 1..n |-> k - 1]
      backwards == [k \in 1..n |-> n - k]
      pins(indices) == [k \in 1..Len(indices) |-> as[indices[k] + 1].dout_pin]
  IN { WeightArgs(values, NotGiven, NotGiven),
       WeightArgs(values, Given(forwards), NotGiven),
       WeightArgs(values, Given(backwards), NotGiven),
       WeightArgs(values, NotGiven, Given(pins(forwards))),
       WeightArgs(values, NotGiven, Given(pins(backwards))),
       WeightArgs(<<IntRat(2)>>, Given(<<n - 1>>), NotGiven),
       WeightArgs(<<IntRat(2)>>, NotGiven, Given(pins(<<n - 1>>))) }

\* return to the caller: the innermost return label, or idle
Return ==
  IF stack = <<>> THEN pc' = "idle" /\ stack' = stack
  ELSE pc' = Head(stack) /\ stack' = Tail(stack)

\* an exception nobody catches ends the API call
Raise(e) == pc' = "idle" /\ stack' = <<>> /\ returned' = Raised(e)

(***************************************************************************)
(* HX711.__init__.                                                         *)
(***************************************************************************)
\* the state when __init__ calls _read, for constructor arguments in cfgs
InitWith(cfgs, readings_budget) ==
  /\ \E c \in cfgs :
       /\ single_adc = c.single
       /\ adcs = [k \in 1..Len(c.pins) |-> NewADC(c.pins[k])]
       /\ shifts = [k \in 1..Len(c.pins) |-> 0]
       /\ appended = [k \in 1..Len(c.pins) |-> 0]
       /\ zero_before = [k \in 1..Len(c.pins) |-> IntRat(0)]
       /\ obtained = [k \in 1..Len(c.pins) |-> None]
       /\ channel_A_gain = c.gain
       /\ channel_select = c.channel
       /\ all_or_nothing = c.aon
  /\ budget = readings_budget
  /\ sck = 0
  /\ pc = "read"
  /\ stack = <<"init_ret">>
  /\ polls = 0 /\ bit = 0 /\ gain_i = 0 /\ pulses = 0
  /\ read_result = FALSE
  /\ cycle = 0 /\ readings_to_average = 0 /\ use_prev_read = FALSE
  /\ retry = 0 /\ retry_limit = 0 /\ readings = NoReadings
  /\ returned = RetNone
  /\ api = "__init__"
  /\ calls = 0
  /\ weight_args = NoWeightArgs

Init == InitWith(SessionConfigs, MaxTotalReadings)

\* __init__ after its _read: sleep(0.4), construction is complete
InitReturn ==
  /\ pc = "init_ret"
  /\ Return
  /\ returned' = RetNone
  /\ UNCHANGED <<config, adcs, sck, cyclev, batchv, zerov, apiv>>

(***************************************************************************)
(* HX711._read and what it calls.                                          *)
(***************************************************************************)
\* _read, lines 218-221: _init_raw_read on every ADC
ReadBegin ==
  /\ pc = "read"
  /\ adcs' = [d \in Devices |-> init_raw_read(adcs[d])]
  /\ pulses' = 0 /\ polls' = 0 /\ bit' = 0 /\ gain_i' = 0
  /\ shifts' = [d \in Devices |-> 0]
  /\ appended' = [d \in Devices |-> 0]
  /\ pc' = "prepare"
  /\ UNCHANGED <<config, sck, stack, read_result, batchv, zerov, returned, apiv>>

\* _prepare_to_read, line 138: SCK low
PrepareLow ==
  /\ pc = "prepare"
  /\ sck' = 0
  /\ pc' = "poll"
  /\ UNCHANGED <<config, adcs, stack, cyclev, batchv, zerov, returned, apiv>>

\* any() in place of all(): one ready ADC is taken for readiness of all
any_ready(as) == \E d \in DOMAIN as : as[d].ready

all_ready(as) == \A d \in DOMAIN as : as[d].ready

\* _prepare_to_read, lines 142-148: one iteration of the readiness loop;
\* every ADC not yet ready samples its data line
Poll ==
  /\ pc = "poll"
  /\ polls < POLL_LIMIT
  /\ \E level \in [Devices -> {0, 1}] :
       LET polled == [d \in Devices |-> is_ready(adcs[d], level[d])]
       IN /\ adcs' = polled
          /\ polls' = polls + 1
          /\ pc' = IF all_ready(polled) \/ polls + 1 = POLL_LIMIT
                   THEN "prepared" ELSE "poll"
  /\ UNCHANGED <<config, sck, stack, bit, gain_i, pulses, shifts, appended,
                 read_result, batchv, zerov, returned, apiv>>

\* a readiness test that gives the cycle up whenever some ADC is not ready,
\* whatever all_or_nothing says
PreparedAllRequired ==
  /\ pc = "prepared"
  /\ IF ~all_ready(adcs)
     THEN read_result' = FALSE /\ pc' = "read_ret" /\ polls' = polls
     ELSE read_result' = read_result /\ pc' = "pulse" /\ polls' = 0
  /\ UNCHANGED <<config, adcs, sck, stack, bit, gain_i, pulses, shifts, appended,
                 batchv, zerov, returned, apiv>>

\* a readiness test that lets the cycle go on whatever all_or_nothing says
PreparedNoneRequired ==
  /\ pc = "prepared"
  /\ read_result' = read_result /\ pc' = "pulse" /\ polls' = 0
  /\ UNCHANGED <<config, adcs, sck, stack, bit, gain_i, pulses, shifts, appended,
                 batchv, zerov, returned, apiv>>

\* _prepare_to_read, lines 149-156, and the test of _read, lines 225-226
Prepared ==
  /\ pc = "prepared"
  /\ IF ~all_ready(adcs) /\ all_or_nothing
     THEN read_result' = FALSE /\ pc' = "read_ret" /\ polls' = polls
     ELSE read_result' = read_result /\ pc' = "pulse" /\ polls' = 0
  /\ UNCHANGED <<config, adcs, sck, stack, bit, gain_i, pulses, shifts, appended,
                 batchv, zerov, returned, apiv>>

\* _pulse_sck_high: SCK high then low; in_time is whether it took under 60 us
pulse_sck_high(in_time) ==
  /\ in_time \/ (pulses + 1) \in SlowPulses
  /\ sck' = 0
  /\ pulses' = pulses + 1

\* _read, lines 229-232: the pulse requesting the next data bit
DataPulse ==
  /\ pc = "pulse"
  /\ \E in_time \in BOOLEAN :
       /\ pulse_sck_high(in_time)
       /\ IF in_time
          THEN pc' = "shift" /\ read_result' = read_result
          ELSE pc' = "read_ret" /\ read_result' = FALSE
  /\ UNCHANGED <<config, adcs, stack, polls, bit, gain_i, shifts, appended,
                 batchv, zerov, returned, apiv>>

\* the first k bits (MSB first) of a 24-bit word
prefix(word, k) == word \div Pow2(DATA_BITS - k)

\* the data line of a chip spells one of the words of Samples, MSB first: the
\* levels it may show as bit number k + 1, after the accumulator acc
line_levels(acc, k, n) ==
  {b \in {0, 1} : \E w \in Samples(n) : prefix(w, k + 1) = BitOr(acc * 2, b)}

\* a shift step that makes every ADC sample, ready or not
ShiftBitsUnguarded ==
  /\ pc = "shift"
  /\ \E level \in [Devices -> {0, 1}] :
       /\ \A d \in Devices :
            IF adcs[d].ready
            THEN level[d] \in line_levels(adcs[d].current_raw_read, bit, N)
            ELSE level[d] = 0
       /\ adcs' = [d \in Devices |-> shift_and_read(adcs[d], level[d])]
  /\ shifts' = [d \in Devices |-> shifts[d] + 1]
  /\ bit' = bit + 1
  /\ pc' = IF bit + 1 < DATA_BITS THEN "pulse" ELSE "finish"
  /\ UNCHANGED <<config, sck, stack, polls, gain_i, pulses, appended,
                 read_result, batchv, zerov, returned, apiv>>

\* _read, lines 233-235: every ready ADC shifts the level of its line in
ShiftBits ==
  /\ pc = "shift"
  /\ \E level \in [Devices -> {0, 1}] :
       /\ \A d \in Devices :
            IF adcs[d].ready
            THEN level[d] \in line_levels(adcs[d].current_raw_read, bit, N)
            ELSE level[d] = 0
       /\ adcs' = [d \in Devices |->
                     IF adcs[d].ready THEN shift_and_read(adcs[d], level[d])
                     ELSE adcs[d]]
  /\ shifts' = [d \in Devices |-> IF adcs[d].ready THEN shifts[d] + 1 ELSE shifts[d]]
  /\ bit' = bit + 1
  /\ pc' = IF bit + 1 < DATA_BITS THEN "pulse" ELSE "finish"
  /\ UNCHANGED <<config, sck, stack, polls, gain_i, pulses, appended,
                 read_result, batchv, zerov, returned, apiv>>

\* a finish step that records a raw read for every ADC, ready or not
FinishReadsUnguarded ==
  /\ pc = "finish"
  /\ adcs' = [d \in Devices |-> finish_raw_read(adcs[d])]
  /\ appended' = [d \in Devices |-> appended[d] + 1]
  /\ pc' = "gain"
  /\ UNCHANGED <<config, sck, stack, polls, bit, gain_i, pulses, shifts,
                 read_result, batchv, zerov, returned, apiv>>

\* _read, lines 237-239: every ready ADC records its raw read
FinishReads ==
  /\ pc = "finish"
  /\ adcs' = [d \in Devices |->
                IF adcs[d].ready THEN finish_raw_read(adcs[d]) ELSE adcs[d]]
  /\ appended' = [d \in Devices |-> IF adcs[d].ready THEN appended[d] + 1
                                    ELSE appended[d]]
  /\ pc' = "gain"
  /\ UNCHANGED <<config, sck, stack, polls, bit, gain_i, pulses, shifts,
                 read_result, batchv, zerov, returned, apiv>>

\* a pulse count chosen by the gain alone, whatever the channel
num_pulses_by_gain(channel, gain) == IF gain = 128 THEN 1 ELSE 3

\* _write_channel_gain, lines 193-197
num_pulses(channel, gain) ==
  IF channel = "A" /\ gain = 128 THEN 1
  ELSE IF channel = "A" /\ gain = 64 THEN 3
  ELSE 2

\* _write_channel_gain, lines 200-203, and _read, lines 242-245
GainPulse ==
  /\ pc = "gain"
  /\ \E in_time \in BOOLEAN :
       /\ pulse_sck_high(in_time)
       /\ IF ~in_time
          THEN pc' = "read_ret" /\ read_result' = FALSE /\ gain_i' = gain_i
          ELSE /\ gain_i' = gain_i + 1
               /\ IF gain_i + 1 < num_pulses(channel_select, channel_A_gain)
                  THEN pc' = "gain" /\ read_result' = read_result
                  ELSE pc' = "read_ret" /\ read_result' = TRUE
  /\ UNCHANGED <<config, adcs, stack, polls, bit, shifts, appended,
                 batchv, zerov, returned, apiv>>

\* _read returns to its caller
ReadReturn ==
  /\ pc = "read_ret"
  /\ Return
  /\ UNCHANGED <<config, adcs, sck, cyclev, batchv, zerov, returned, apiv>>

ReadStep ==
  \/ ReadBegin \/ PrepareLow \/ Poll \/ Prepared \/ DataPulse \/ ShiftBits
  \/ FinishReads \/ GainPulse \/ ReadReturn

(***************************************************************************)
(* HX711.read_raw.                                                         *)
(***************************************************************************)
\* the argument check of read_raw and read_weight
in_range(n) == 1 <= n /\ n <= READINGS_LIMIT

\* a read_raw that starts its batch without _init_set_of_reads
ReadRawBeginKeepsHistory ==
  /\ pc = "read_raw"
  /\ IF ~in_range(readings_to_average)
     THEN /\ Raise("ValueError")
          /\ UNCHANGED <<adcs, cycle>>
     ELSE /\ adcs' = adcs
          /\ cycle' = 0
          /\ pc' = "rr_loop"
          /\ UNCHANGED <<stack, returned>>
  /\ UNCHANGED <<config, sck, cyclev, readings_to_average, use_prev_read, zerov, apiv>>

\* read_raw, lines 257-264: the argument check, then _init_set_of_reads
ReadRawBegin ==
  /\ pc = "read_raw"
  /\ IF ~in_range(readings_to_average)
     THEN /\ Raise("ValueError")
          /\ UNCHANGED <<adcs, cycle>>
     ELSE /\ adcs' = [d \in Devices |-> init_set_of_reads(adcs[d])]
          /\ cycle' = 0
          /\ pc' = "rr_loop"
          /\ UNCHANGED <<stack, returned>>
  /\ UNCHANGED <<config, sck, cyclev, readings_to_average, use_prev_read, zerov, apiv>>

\* read_raw, lines 266-267: the next cycle of the batch, or the loop's end
ReadRawLoop ==
  /\ pc = "rr_loop"
  /\ IF cycle < readings_to_average
     THEN /\ cycle' = cycle + 1
          /\ stack' = <<"rr_loop">> \o stack
          /\ pc' = "read"
     ELSE /\ pc' = "rr_calc"
          /\ UNCHANGED <<cycle, stack>>
  /\ UNCHANGED <<config, adcs, sck, cyclev, readings_to_average, use_prev_read,
                 zerov, returned, apiv>>

\* read_raw, lines 270-272: aggregate every ADC whose _ready flag is set
aggregate_ready(a) == IF a.ready THEN calculate_measurement(a).adc ELSE a

ReadRawCalc ==
  /\ pc = "rr_calc"
  /\ adcs' = [d \in Devices |-> aggregate_ready(adcs[d])]
  /\ pc' = "rr_ret"
  /\ UNCHANGED <<config, sck, stack, cyclev, batchv, zerov, returned, apiv>>

\* read_raw, lines 278-289: the value returned
read_raw_value(as, single) ==
  LET adc_measurements == [d \in DOMAIN as |-> as[d].measurement_from_zero]
  IN IF single THEN RetScalar(adc_measurements[1]) ELSE RetList(adc_measurements)

ReadRawReturn ==
  /\ pc = "rr_ret"
  /\ returned' = read_raw_value(adcs, single_adc)
  /\ Return
  /\ UNCHANGED <<config, adcs, sck, cyclev, batchv, zerov, apiv>>

ReadRawStep == ReadRawBegin \/ ReadRawLoop \/ ReadRawCalc \/ ReadRawReturn

(***************************************************************************)
(* HX711.read_weight.                                                      *)
(***************************************************************************)
\* a read_weight that checks readings_to_average only when it reads a batch
ReadWeightBeginUncheckedPrev ==
  /\ pc = "read_weight"
  /\ IF use_prev_read
     THEN pc' = "rw_ret" /\ stack' = stack /\ returned' = returned
     ELSE IF ~in_range(readings_to_average)
     THEN Raise("ValueError")
     ELSE pc' = "read_raw" /\ stack' = <<"rw_ret">> \o stack /\ returned' = returned
  /\ UNCHANGED <<config, adcs, sck, cyclev, batchv, zerov, apiv>>

\* read_weight, lines 303-309
ReadWeightBegin ==
  /\ pc = "read_weight"
  /\ IF ~in_range(readings_to_average)
     THEN Raise("ValueError")
     ELSE /\ returned' = returned
          /\ IF ~use_prev_read
             THEN pc' = "read_raw" /\ stack' = <<"rw_ret">> \o stack
             ELSE pc' = "rw_ret" /\ stack' = stack
  /\ UNCHANGED <<config, adcs, sck, cyclev, batchv, zerov, apiv>>

\* read_weight, lines 312-316: the value returned
read_weight_value(as, single) ==
  LET adc_weights == [d \in DOMAIN as |-> as[d].weight]
  IN IF single THEN RetScalar(adc_weights[1]) ELSE RetList(adc_weights)

ReadWeightReturn ==
  /\ pc = "rw_ret"
  /\ returned' = read_weight_value(adcs, single_adc)
  /\ Return
  /\ UNCHANGED <<config, adcs, sck, cyclev, batchv, zerov, apiv>>

ReadWeightStep == ReadWeightBegin \/ ReadWeightReturn

(***************************************************************************)
(* HX711.power_down, power_up, reset.                                      *)
(***************************************************************************)
\* power_down, line 320
PowerDownLow ==
  /\ pc = "power_down"
  /\ sck' = 0
  /\ pc' = "power_down_high"
  /\ UNCHANGED <<config, adcs, stack, cyclev, batchv, zerov, returned, apiv>>

\* power_down, lines 321-322
PowerDownHigh ==
  /\ pc = "power_down_high"
  /\ sck' = 1
  /\ returned' = RetNone
  /\ Return
  /\ UNCHANGED <<config, adcs, cyclev, batchv, zerov, apiv>>

\* power_up, lines 326-327
PowerUpBegin ==
  /\ pc = "power_up"
  /\ sck' = 0
  /\ stack' = <<"power_up_ret">> \o stack
  /\ pc' = "read"
  /\ UNCHANGED <<config, adcs, cyclev, batchv, zerov, returned, apiv>>

\* power_up, lines 328-332
PowerUpReturn ==
  /\ pc = "power_up_ret"
  /\ returned' = RetBool(read_result)
  /\ Return
  /\ UNCHANGED <<config, adcs, sck, cyclev, batchv, zerov, apiv>>

\* a reset that leaves out power_down
ResetBeginPowerUpOnly ==
  /\ pc = "reset"
  /\ stack' = <<"reset_ret">> \o stack
  /\ pc' = "power_up"
  /\ UNCHANGED <<config, adcs, sck, cyclev, batchv, zerov, returned, apiv>>

\* reset, line 339
ResetBegin ==
  /\ pc = "reset"
  /\ stack' = <<"reset_up">> \o stack
  /\ pc' = "power_down"
  /\ UNCHANGED <<config, adcs, sck, cyclev, batchv, zerov, returned, apiv>>

\* reset, line 340
ResetPowerUp ==
  /\ pc = "reset_up"
  /\ stack' = <<"reset_ret">> \o stack
  /\ pc' = "power_up"
  /\ UNCHANGED <<config, adcs, sck, cyclev, batchv, zerov, returned, apiv>>

\* reset, lines 341-344
ResetReturn ==
  /\ pc = "reset_ret"
  /\ returned' = RetBool(returned.b)
  /\ Return
  /\ UNCHANGED <<config, adcs, sck, cyclev, batchv, zerov, apiv>>

PowerStep ==
  \/ PowerDownLow \/ PowerDownHigh \/ PowerUpBegin \/ PowerUpReturn
  \/ ResetBegin \/ ResetPowerUp \/ ResetReturn

(***************************************************************************)
(* HX711.zero.                                                             *)
(***************************************************************************)
\* a retry loop that runs one batch more than retry_limit
ZeroLoopOneMore ==
  /\ pc = "zero_loop"
  /\ IF retry <= retry_limit
     THEN /\ retry' = retry + 1
          /\ stack' = <<"zero_merge">> \o stack
          /\ pc' = "read_raw"
     ELSE /\ pc' = "zero_check"
          /\ UNCHANGED <<retry, stack>>
  /\ UNCHANGED <<config, adcs, sck, cyclev, batchv, retry_limit, readings,
                 zero_before, obtained, returned, apiv>>

\* zero, lines 351-352: the next batch, or the loop's end
ZeroLoop ==
  /\ pc = "zero_loop"
  /\ IF retry < retry_limit
     THEN /\ retry' = retry + 1
          /\ stack' = <<"zero_merge">> \o stack
          /\ pc' = "read_raw"
     ELSE /\ pc' = "zero_check"
          /\ UNCHANGED <<retry, stack>>
  /\ UNCHANGED <<config, adcs, sck, cyclev, batchv, retry_limit, readings,
                 zero_before, obtained, returned, apiv>>

\* a merge that takes the new reading even when it is absent
merge_latest(readings_new, readings_old) ==
  [k \in 1..(IF Len(readings_new) < Len(readings_old)
             THEN Len(readings_new) ELSE Len(readings_old)) |-> readings_new[k]]

\* zero, lines 354-355: r_new if r_new is not None else r_old, over zip
merge_readings(readings_new, readings_old) ==
  [k \in 1..(IF Len(readings_new) < Len(readings_old)
             THEN Len(readings_new) ELSE Len(readings_old)) |->
     IF ~IsNone(readings_new[k]) THEN readings_new[k] ELSE readings_old[k]]

\* zero, lines 353-357: the merged readings after a batch returned readings_new
merged(old, readings_new) ==
  IF old.set THEN [set |-> TRUE, vals |-> merge_readings(readings_new, old.vals)]
  ELSE [set |-> TRUE, vals |-> readings_new]

\* None in readings, for a list
has_none(vals) == \E k \in 1..Len(vals) : IsNone(vals[k])

\* zero, lines 352-359, after read_raw returned; a scalar (single ADC) is not
\* iterable, so  None not in readings  raises TypeError
ZeroMerge ==
  /\ pc = "zero_merge"
  /\ obtained' = [d \in Devices |->
                      IF ~IsNone(returned.vals[d]) THEN adcs[d].measurement
                      ELSE obtained[d]]
  /\ IF returned.kind = "scalar"
     THEN /\ Raise("TypeError")
          /\ UNCHANGED readings
     ELSE LET m == merged(readings, returned.vals)
          IN /\ readings' = m
             /\ pc' = IF ~has_none(m.vals) THEN "zero_check" ELSE "zero_loop"
             /\ UNCHANGED <<stack, returned>>
  /\ UNCHANGED <<config, adcs, sck, cyclev, batchv, retry, retry_limit,
                 zero_before, apiv>>

\* zero without its test of line 360: absent readings do not stop the zeroing
ZeroCheckLenient ==
  /\ pc = "zero_check"
  /\ IF ~readings.set THEN Raise("TypeError")
     ELSE pc' = "zero_adcs" /\ UNCHANGED <<stack, returned>>
  /\ UNCHANGED <<config, adcs, sck, cyclev, batchv, zerov, apiv>>

\* zero, lines 360-361;  None in None  (no batch was run) raises TypeError
ZeroCheck ==
  /\ pc = "zero_check"
  /\ IF ~readings.set THEN Raise("TypeError")
     ELSE IF has_none(readings.vals) THEN Raise("Exception")
     ELSE pc' = "zero_adcs" /\ UNCHANGED <<stack, returned>>
  /\ UNCHANGED <<config, adcs, sck, cyclev, batchv, zerov, apiv>>

\* zero, lines 363-367, from ADC number d on: the ADCs after the loop, which
\* stops at the first ready ADC whose zero_from_last_measurement raises
RECURSIVE zero_adcs(_, _)
zero_adcs(as, d) ==
  IF d > Len(as) THEN [adcs |-> as, raised |-> FALSE]
  ELSE IF ~as[d].ready THEN zero_adcs(as, d + 1)
  ELSE IF zero_from_last_measurement_raises(as[d]) THEN [adcs |-> as, raised |-> TRUE]
  ELSE zero_adcs([as EXCEPT ![d] = zero_from_last_measurement(as[d])], d + 1)

ZeroAdcs ==
  /\ pc = "zero_adcs"
  /\ LET z == zero_adcs(adcs, 1)
     IN /\ adcs' = z.adcs
        /\ IF z.raised THEN Raise("ValueError")
           ELSE returned' = RetNone /\ Return
  /\ UNCHANGED <<config, sck, cyclev, batchv, zerov, apiv>>

ZeroStep == ZeroLoop \/ ZeroMerge \/ ZeroCheck \/ ZeroAdcs

(***************************************************************************)
(* HX711.set_weight_multiples and HX711.tare.                              *)
(***************************************************************************)
\* set_weight_multiples, lines 391-392: with neither indices nor pins given
\* the indices are range(len(weight_multiples))
default_indices(weight_multiples, adc_indices, dout_pins) ==
  IF ~adc_indices.given /\ ~dout_pins.given
  THEN Given([k \in 1..Len(weight_multiples) |-> k - 1])
  ELSE adc_indices

\* set_weight_multiples, lines 395-402: the addressed ADCs, as positions in
\* _adcs; both list comprehensions run over _adcs and keep its order
adcs_addressed(as, adc_indices, dout_pins) ==
  LET positions == [d \in 1..Len(as) |-> d]
      pin_listed(d) ==
        \E k \in DOMAIN dout_pins.list : dout_pins.list[k] = as[d].dout_pin
      index_listed(d) ==
        \E k \in DOMAIN adc_indices.list : adc_indices.list[k] = d - 1
  IN IF dout_pins.given
     THEN SelectSeq(positions, pin_listed)
     ELSE SelectSeq(positions, index_listed)

\* set_weight_multiples, lines 388-406: zip pairs the addressed ADCs with the
\* values and stops at the shorter of the two
set_weight_multiples(as, weight_multiples, adc_indices, dout_pins) ==
  LET indices == default_indices(weight_multiples, adc_indices, dout_pins)
      selected == adcs_addressed(as, indices, dout_pins)
      pairs == IF Len(selected) < Len(weight_multiples)
               THEN Len(selected) ELSE Len(weight_multiples)
  IN [d \in DOMAIN as |->
       IF \E k \in 1..pairs : selected[k] = d
       THEN [as[d] EXCEPT !.weight_multiple =
               weight_multiples[CHOOSE k \in 1..pairs : selected[k] = d]]
       ELSE as[d]]

SetWeightMultiples ==
  /\ pc = "set_weight_multiples"
  /\ adcs' = set_weight_multiples(adcs, weight_args.weight_multiples,
                                  weight_args.adc_indices, weight_args.dout_pins)
  /\ returned' = RetNone
  /\ Return
  /\ UNCHANGED <<config, sck, cyclev, batchv, zerov, apiv>>

\* tare, lines 369-371: the method has no self parameter and its adc is a
\* local that is never bound, so every call raises before any ADC is touched:
\* TypeError when an offset is passed, UnboundLocalError when none is
Tare ==
  /\ pc \in {"tare", "tare_offset"}
  /\ Raise(IF pc = "tare_offset" THEN "TypeError" ELSE "UnboundLocalError")
  /\ UNCHANGED <<config, adcs, sck, cyclev, batchv, zerov, apiv>>

WeightStep == SetWeightMultiples \/ Tare

(***************************************************************************)
(* API calls made on the constructed controller.                           *)
(***************************************************************************)
\* an API call may start when none is running and the bounds allow it
CanCall(cost) == pc = "idle" /\ calls < MaxCalls /\ cost <= budget

\* the call starts with fresh locals; what the previous call left is dropped
StartedWith(name, cost, n, prev, limit, wargs) ==
  /\ api' = name /\ calls' = calls + 1 /\ budget' = budget - cost
  /\ weight_args' = wargs
  /\ stack' = <<>>
  /\ returned' = RetNone
  /\ polls' = 0 /\ bit' = 0 /\ gain_i' = 0 /\ pulses' = 0
  /\ shifts' = [d \in Devices |-> 0]
  /\ appended' = [d \in Devices |-> 0]
  /\ read_result' = FALSE
  /\ cycle' = 0
  /\ readings_to_average' = n
  /\ use_prev_read' = prev
  /\ retry' = 0
  /\ retry_limit' = limit
  /\ readings' = NoReadings
  /\ zero_before' = [d \in Devices |-> adcs[d].zero_offset]
  /\ obtained' = [d \in Devices |-> None]
  /\ UNCHANGED <<config, adcs, sck>>

Started(name, cost, n, prev, limit) ==
  StartedWith(name, cost, n, prev, limit, NoWeightArgs)

\* the readings a call given readings_to_average = n counts for
batch_cycles(n) == IF in_range(n) THEN n ELSE 0

CallReadRaw ==
  \E n \in ReadingsChoices :
    /\ CanCall(batch_cycles(n))
    /\ Started("read_raw", batch_cycles(n), n, FALSE, 0)
    /\ pc' = "read_raw"

CallReadWeight ==
  \E n \in ReadingsChoices, prev \in BOOLEAN :
    /\ CanCall(IF prev THEN 0 ELSE batch_cycles(n))
    /\ Started("read_weight", IF prev THEN 0 ELSE batch_cycles(n), n, prev, 0)
    /\ pc' = "read_weight"

CallZero ==
  \E n \in ReadingsChoices, limit \in 0..MaxRetry :
    /\ CanCall(batch_cycles(n))
    /\ Started("zero", batch_cycles(n), n, FALSE, limit)
    /\ pc' = "zero_loop"

CallPowerDown ==
  /\ CanCall(0)
  /\ Started("power_down", 0, 0, FALSE, 0)
  /\ pc' = "power_down"

CallPowerUp ==
  /\ CanCall(1)
  /\ Started("power_up", 1, 0, FALSE, 0)
  /\ pc' = "power_up"

CallReset ==
  /\ CanCall(1)
  /\ Started("reset", 1, 0, FALSE, 0)
  /\ pc' = "reset"

\* set_weight_multiples with lists of values, indices and pins; utils.
\* convert_to_list leaves a list as it is
CallSetWeightMultiples ==
  \E a \in WeightChoices(adcs) :
    /\ CanCall(0)
    /\ StartedWith("set_weight_multiples", 0, 0, FALSE, 0, a)
    /\ pc' = "set_weight_multiples"

CallTare ==
  \E with_offset \in BOOLEAN :
    /\ CanCall(0)
    /\ Started("tare", 0, 0, FALSE, 0)
    /\ pc' = IF with_offset THEN "tare_offset" ELSE "tare"

Call ==
  \/ CallReadRaw \/ CallReadWeight \/ CallZero
  \/ CallPowerDown \/ CallPowerUp \/ CallReset

Step == InitReturn \/ ReadStep \/ ReadRawStep \/ ReadWeightStep \/ PowerStep \/ ZeroStep

Next == Step \/ Call

Spec == Init /\ [][Next]_vars

(***************************************************************************)
(* SpecWeights: the API sessions of Spec with set_weight_multiples and     *)
(* tare among the calls.                                                   *)
(***************************************************************************)
NextWeights == Next \/ WeightStep \/ CallSetWeightMultiples \/ CallTare

SpecWeights == Init /\ [][NextWeights]_vars

(***************************************************************************)
(* SpecCycle: the read cycle under every combination of constructor        *)
(* arguments, driven by the constructor, read_raw and the power calls.     *)
(***************************************************************************)
InitCycle == InitWith(AllConfigs, MaxCycleReadings)

NextCycle ==
  \/ InitReturn \/ ReadStep \/ ReadRawStep \/ PowerStep
  \/ CallReadRaw \/ CallPowerDown \/ CallPowerUp \/ CallReset

SpecCycle == InitCycle /\ [][NextCycle]_vars

(***************************************************************************)
(* SpecPair: two devices on one clock, with and without all_or_nothing, in *)
(* sessions of read_raw batches and power calls.                           *)
(***************************************************************************)
PairConfigs ==
  { Config(FALSE, <<5, 6>>, 128, "B", TRUE),
    Config(FALSE, <<5, 6>>, 128, "A", FALSE) }

InitPair == InitWith(PairConfigs, MaxTotalReadings)

SpecPair == InitPair /\ [][NextCycle]_vars

(***************************************************************************)
(* SpecConv: convert_to_signed_value on its own.  A lone ADC has shifted   *)
(* 24 bits in the constructor's cycle and holds any of ConvInputs in its   *)
(* accumulator; FinishReads converts and records it.                       *)
(***************************************************************************)
\* raw values tried: around 0, around the sign bit, around all-ones, and
\* the single-bit patterns with and without the sign bit
ConvInputs ==
  (0..15) \cup (8388600..8388623) \cup (16777200..16777215)
  \cup {Pow2(k) : k \in 0..23} \cup {8388608 + Pow2(k) : k \in 0..22}

\* the state just before the loop of _read that calls _finish_raw_read
MidCycle(raw_value) ==
  /\ single_adc = FALSE
  /\ adcs = <<[NewADC(5) EXCEPT !.ready = TRUE, !.current_raw_read = raw_value]>>
  /\ channel_A_gain = 128 /\ channel_select = "A" /\ all_or_nothing = TRUE
  /\ shifts = <<DATA_BITS>> /\ appended = <<0>>
  /\ zero_before = <<IntRat(0)>> /\ obtained = <<None>>
  /\ budget = 0 /\ calls = 0 /\ api = "__init__"
  /\ weight_args = NoWeightArgs
  /\ sck = 0
  /\ pc = "finish"
  /\ stack = <<"init_ret">>
  /\ polls = 0 /\ bit = DATA_BITS /\ gain_i = 0 /\ pulses = DATA_BITS
  /\ read_result = FALSE
  /\ cycle = 0 /\ readings_to_average = 0 /\ use_prev_read = FALSE
  /\ retry = 0 /\ retry_limit = 0 /\ readings = NoReadings
  /\ returned = RetNone

InitConv == \E v \in ConvInputs : MidCycle(v)

SpecConv == InitConv /\ [][FinishReads]_vars

(***************************************************************************)
(* SpecAgg: _calculate_measurement on its own.  A lone ADC holds any batch *)
(* of up to MaxBatch reads over AggValues when read_raw reaches its        *)
(* aggregation loop.                                                       *)
(***************************************************************************)
\* signed reads tried (None is an invalid sample)
AggValues == {None, IntRat(-3), IntRat(-2), IntRat(0), IntRat(10), IntRat(12),
              IntRat(1000)}

\* zero offsets the ADC may hold
AggOffsets == {IntRat(0), Rat(5, 2)}

\* the raw code a signed read came from
raw_of(r) == IF IsNone(r) THEN RAW_MIN ELSE IF r[1] < 0 THEN r[1] + Pow2(DATA_BITS) ELSE r[1]

Batches == UNION { [1..n -> AggValues] : n \in 0..MaxBatch }

\* the state when read_raw reaches line 270 after n cycles with the batch in
\* the ADC
BatchReadOf(batch, offset, n) ==
  /\ single_adc = FALSE
  /\ adcs = <<[NewADC(5) EXCEPT !.ready = TRUE,
                                !.zero_offset = offset,
                                !.current_raw_read =
                                   IF batch = <<>> THEN 0 ELSE raw_of(batch[Len(batch)]),
                                !.raw_reads = [k \in 1..Len(batch) |-> raw_of(batch[k])],
                                !.reads = batch]>>
  /\ channel_A_gain = 128 /\ channel_select = "A" /\ all_or_nothing = TRUE
  /\ shifts = <<DATA_BITS>> /\ appended = <<1>>
  /\ zero_before = <<offset>> /\ obtained = <<None>>
  /\ budget = 0 /\ calls = 1 /\ api = "read_raw"
  /\ weight_args = NoWeightArgs
  /\ sck = 0
  /\ pc = "rr_calc"
  /\ stack = <<>>
  /\ polls = 0 /\ bit = DATA_BITS /\ gain_i = 1 /\ pulses = DATA_BITS + 1
  /\ read_result = TRUE
  /\ cycle = n /\ readings_to_average = n /\ use_prev_read = FALSE
  /\ retry = 0 /\ retry_limit = 0 /\ readings = NoReadings
  /\ returned = RetNone

BatchRead(batch, offset) == BatchReadOf(batch, offset, MaxBatch)

InitAgg == \E batch \in Batches, offset \in AggOffsets : BatchRead(batch, offset)

NextAgg == ReadRawCalc \/ ReadRawReturn

SpecAgg == InitAgg /\ [][NextAgg]_vars

(***************************************************************************)
(* SpecStable: _calculate_measurement on batches of up to MaxStable valid  *)
(* reads over StableValues, for what the filter does to its own output.    *)
(***************************************************************************)
StableValues == {IntRat(0), IntRat(1), IntRat(2), IntRat(3), IntRat(400), IntRat(600)}

StableBatches == UNION { [1..n -> StableValues] : n \in 0..MaxStable }

InitStable == \E batch \in StableBatches : BatchReadOf(batch, IntRat(0), MaxStable)

SpecStable == InitStable /\ [][NextAgg]_vars

(***************************************************************************)
(* Properties.                                                             *)
(***************************************************************************)
\* the present values of a history, as ints
ValidInts(reads) ==
  LET present == SelectSeq(reads, LAMBDA r : r[2] # 0)
  IN [i \in 1..Len(present) |-> present[i][1]]

RECURSIVE SumInts(_)
SumInts(xs) == IF xs = <<>> THEN 0 ELSE xs[1] + SumInts(Tail(xs))

\* the elements of xs at the indices in K, in order, from index i on
RECURSIVE KeepAt(_, _, _)
KeepAt(xs, K, i) ==
  IF i > Len(xs) THEN <<>>
  ELSE (IF i \in K THEN <<xs[i]>> ELSE <<>>) \o KeepAt(xs, K, i + 1)

\* twice the k-th smallest element of xs
TwiceRanked(xs, k) ==
  2 * (CHOOSE x \in {xs[i] : i \in 1..Len(xs)} :
         /\ Cardinality({i \in 1..Len(xs) : xs[i] < x}) < k
         /\ Cardinality({i \in 1..Len(xs) : xs[i] <= x}) >= k)

\* twice the median of xs
TwiceMedian(xs) ==
  LET n == Len(xs)
  IN IF n % 2 = 1 THEN TwiceRanked(xs, (n + 1) \div 2)
     ELSE (TwiceRanked(xs, n \div 2) + TwiceRanked(xs, (n \div 2) + 1)) \div 2

\* twice the deviations of xs from its median
TwiceDevs(xs) ==
  LET m2 == TwiceMedian(xs)
  IN [i \in 1..Len(xs) |-> Abs(2 * xs[i] - m2)]

\* n(n-1) times the sample variance of the doubled deviations of xs, which
\* is 4n(n-1) times read_stdev squared
ScaledVar(xs) ==
  LET D == TwiceDevs(xs)
  IN Len(xs) * SumInts([i \in 1..Len(xs) |-> D[i] * D[i]]) - SumInts(D) * SumInts(D)

\* read_stdev > 100
StdevOverMax(xs) == ScaledVar(xs) > 4 * 100 * 100 * Len(xs) * (Len(xs) - 1)

\* the values of xs whose deviation is at most 2.0 times read_stdev
Survivors(xs) ==
  LET D == TwiceDevs(xs)
      V == ScaledVar(xs)
      K == {i \in 1..Len(xs) : D[i] * D[i] * Len(xs) * (Len(xs) - 1) <= 2 * 2 * V}
  IN KeepAt(xs, K, 1)

OutlierFilterAlways ==
  [][pc = "rr_calc" =>
       \A d \in Devices :
         LET xs == ValidInts(adcs[d].reads)
             kept == Survivors(xs)
             m == adcs'[d].measurement
         IN adcs[d].ready /\ Len(xs) >= 2 /\ ScaledVar(xs) > 0 =>
              /\ calculate_measurement(adcs[d]).ret
              /\ adcs'[d].reads_filtered = kept
              /\ m # None /\ m[1] * Len(kept) = SumInts(kept) * m[2]
              /\ xs = <<10, 12, 1000>> =>
                   /\ adcs'[d].reads_filtered = <<10, 12>>
                   /\ adcs'[d].measurement = <<11, 1>>]_vars

\* C9 (amended): when two or more valid values have 0 < read_stdev <= 100,
\* aggregation keeps exactly the values of ratio <= 2.0 and, if any is kept,
\* succeeds with measurement = their mean (it fails, measurement absent, if
\* none is kept); when read_stdev > 100, as for [10, 12, 1000], it keeps
\* nothing, fails, leaves measurement absent and marks the device not ready.
OutlierFilterWithinMaxStdev ==
  [][pc = "rr_calc" =>
       \A d \in Devices :
         LET xs == ValidInts(adcs[d].reads)
             kept == Survivors(xs)
             ret == calculate_measurement(adcs[d]).ret
             m == adcs'[d].measurement
         IN adcs[d].ready /\ Len(xs) >= 2 /\ ScaledVar(xs) > 0 =>
              /\ ~StdevOverMax(xs) =>
                   /\ adcs'[d].reads_filtered = kept
                   /\ adcs'[d].ready
                   /\ kept # <<>> =>
                        ret /\ m # None /\ m[1] * Len(kept) = SumInts(kept) * m[2]
                   /\ kept = <<>> => ~ret /\ m = None
              /\ StdevOverMax(xs) =>
                   /\ ~ret /\ m = None
                   /\ adcs'[d].reads_filtered = <<>>
                   /\ ~adcs'[d].ready
              /\ xs = <<10, 12, 1000>> => StdevOverMax(xs) /\ m = None]_vars

\* C9 witness: [0, 0, -2, -3] was aggregated (read_stdev 0.5), -3 of ratio 4
\* was dropped and the mean of the rest, -2/3, is the measurement
OutlierDropped ==
  /\ pc = "rr_ret"
  /\ adcs[1].reads = <<<<0, 1>>, <<0, 1>>, <<-2, 1>>, <<-3, 1>>>>
  /\ adcs[1].reads_filtered = <<0, 0, -2>>
  /\ adcs[1].measurement = <<-2, 3>>

\* C10: aggregating a batch with exactly one valid value succeeds with that
\* value as measurement; with two or more valid values, all identical, it
\* succeeds by the read_stdev = 0 path with the common value as measurement;
\* with no valid value it fails and measurement is absent.
AggregationEdgeCases ==
  [][pc = "rr_calc" =>
       \A d \in Devices :
         LET xs == ValidInts(adcs[d].reads)
             ret == calculate_measurement(adcs[d]).ret
         IN adcs[d].ready =>
              /\ Len(xs) = 0 => ~ret /\ adcs'[d].measurement = None
              /\ Len(xs) = 1 => ret /\ adcs'[d].measurement = <<xs[1], 1>>
              /\ Len(xs) >= 2 /\ (\A i \in 1..Len(xs) : xs[i] = xs[1]) =>
                   /\ ret
                   /\ adcs'[d].read_stdev_sq = <<0, 1>>
                   /\ adcs'[d].ratios_to_stdev_sq = <<>>
                   /\ adcs'[d].measurement = <<xs[1], 1>>]_vars

\* C10 witness: a batch of one absent and two identical valid values was
\* aggregated to the common value
IdenticalAggregated ==
  /\ pc = "rr_ret"
  /\ adcs[1].reads = <<None, <<12, 1>>, <<12, 1>>>>
  /\ adcs[1].read_stdev_sq = <<0, 1>>
  /\ adcs[1].measurement = <<12, 1>>

\* some ADC's _ready flag is clear
SomeNotReady == \E d \in Devices : ~adcs[d].ready

\* the extra pulses that select the next cycle's channel and gain
ExtraPulses ==
  IF channel_select = "B" THEN 2 ELSE IF channel_A_gain = 128 THEN 1 ELSE 3

\* C2: with all_or_nothing set, a cycle in which some device never showed
\* ready has polled exactly 20 times and fails without a clock pulse, a bit
\* shifted into any accumulator or a value appended to any history; no
\* cycle goes on to clock data with a device not ready.
ReadinessBudget ==
  /\ all_or_nothing /\ pc \in {"pulse", "shift", "finish", "gain"} => ~SomeNotReady
  /\ all_or_nothing /\ pc \in {"prepared", "read_ret"} /\ SomeNotReady =>
       /\ polls = 20
       /\ pulses = 0
       /\ \A d \in Devices :
            shifts[d] = 0 /\ appended[d] = 0 /\ adcs[d].current_raw_read = 0
       /\ pc = "read_ret" => ~read_result

\* C2 witness: of two devices the second never showed ready, the cycle failed
ReadinessFailed ==
  /\ pc = "read_ret" /\ all_or_nothing /\ N = 2
  /\ adcs[1].ready /\ ~adcs[2].ready
  /\ polls = 20 /\ pulses = 0 /\ ~read_result

SomeAbsent == \E k \in 1..Len(readings.vals) : readings.vals[k] = None

\* an upper bound on the steps a read cycle still takes
CycleStepsLeft ==
  CASE pc = "read_ret" -> 1
    [] pc = "gain" -> 2 + (3 - gain_i)
    [] pc = "finish" -> 6
    [] pc = "shift" -> 7 + 2 * (DATA_BITS - 1 - bit)
    [] pc = "pulse" -> 8 + 2 * (DATA_BITS - 1 - bit)
    [] pc = "prepared" -> 9 + 2 * (DATA_BITS - 1)
    [] pc = "poll" -> 10 + 2 * (DATA_BITS - 1) + (POLL_LIMIT - polls)
    [] pc = "prepare" -> 11 + 2 * (DATA_BITS - 1) + POLL_LIMIT
    [] pc = "read" -> 12 + 2 * (DATA_BITS - 1) + POLL_LIMIT
    [] OTHER -> 0

\* the steps of one cycle of a batch, with the step of the loop that starts it
CycleSteps == 14 + 2 * (DATA_BITS - 1) + POLL_LIMIT

\* the steps of a whole read_raw call
BatchSteps ==
  IF 1 <= readings_to_average /\ readings_to_average <= 10000
  THEN readings_to_average * CycleSteps + 4 ELSE 1

\* an upper bound on the steps read_raw still takes, the running cycle apart
BatchStepsLeft ==
  CASE pc = "read_raw" -> BatchSteps
    [] pc = "rr_loop" \/ (stack # <<>> /\ Head(stack) = "rr_loop") ->
         (readings_to_average - cycle) * CycleSteps + 3
    [] pc = "rr_calc" -> 2
    [] pc = "rr_ret" -> 1
    [] OTHER -> 0

\* an upper bound on the steps zero() still takes, the running batch apart
ZeroStepsLeft ==
  CASE pc = "zero_loop" -> (retry_limit - retry) * (BatchSteps + 3) + 3
    [] pc = "zero_merge" \/ (stack # <<>> /\ stack[Len(stack)] = "zero_merge") ->
         (retry_limit - retry) * (BatchSteps + 3) + 4
    [] pc = "zero_check" -> 2
    [] pc = "zero_adcs" -> 1
    [] OTHER -> 0

\* an upper bound on the steps a running zero() call still takes
StepsLeft == ZeroStepsLeft + BatchStepsLeft + CycleStepsLeft

\* zero() within its budget of batches
WithinRetryLimit ==
  /\ retry <= retry_limit
  /\ pc = "zero_loop" /\ retry > 0 => readings.set /\ SomeAbsent
  /\ pc = "zero_adcs" => readings.set /\ ~SomeAbsent
  /\ api = "zero" /\ pc = "idle" /\ readings.set /\ SomeAbsent =>
       retry = retry_limit /\ returned.kind = "raise"
  /\ api = "zero" => StepsLeft >= 0 /\ (pc = "idle" <=> StepsLeft = 0)

\* C5: zero() starts at most retry_limit batch reads, starts another only
\* while some merged reading is absent, raises if one is still absent after
\* retry_limit batches, and comes to an end: every step of a running call
\* lowers StepsLeft, a natural number that is 0 only when the call is over.
ZeroRetriesBounded ==
  [][/\ WithinRetryLimit /\ WithinRetryLimit'
     /\ api = "zero" /\ pc # "idle" => StepsLeft' < StepsLeft]_vars

\* C5 witness: zero() ran both batches of its budget and raised with the
\* second device's reading still absent
RetriesExhausted ==
  /\ api = "zero" /\ pc = "idle" /\ retry = 2 /\ retry_limit = 2
  /\ N = 2 /\ readings.set /\ readings.vals[2] = None
  /\ returned.kind = "raise"

\* C6 (as stated): when zero() ends and every device obtained a reading in
\* the call, it did not raise and every device's zero_offset is the
\* measurement behind its reading.
ZeroAdoptsMeasurement ==
  api = "zero" /\ pc = "idle" /\ (\A d \in Devices : obtained[d] # None) =>
    /\ returned.kind # "raise"
    /\ \A d \in Devices : adcs[d].zero_offset = obtained[d]

\* C7 (as stated): when zero() ends with a device still absent it raised,
\* and every device that obtained a measurement in the call has it as its
\* zero_offset.
ZeroFailureKeepsPartial ==
  api = "zero" /\ pc = "idle" /\ readings.set /\ SomeAbsent =>
    /\ returned.kind = "raise"
    /\ \A d \in Devices : obtained[d] # None => adcs[d].zero_offset = obtained[d]

\* C7 (amended): when zero() ends with a device still absent it raised, and
\* no device was zeroed: every device, also one that obtained a measurement
\* in the call, has the zero_offset it had when the call was made.
ZeroFailureChangesNothing ==
  api = "zero" /\ pc = "idle" /\ readings.set /\ SomeAbsent =>
    /\ returned = Raised("Exception")
    /\ \A d \in Devices : adcs[d].zero_offset = zero_before[d]

\* C7 witness: zero() raised with device 2 absent; device 1 obtained a
\* measurement, which is not its zero_offset
PartialNotZeroed ==
  /\ api = "zero" /\ pc = "idle" /\ returned = Raised("Exception")
  /\ N = 2 /\ readings.set /\ readings.vals[2] = None
  /\ obtained[1] # None
  /\ adcs[1].zero_offset = zero_before[1]
  /\ adcs[1].zero_offset # obtained[1]

\* C8 (as stated): read_raw returns, for every device a measurement was
\* derived for, measurement - zero_offset, and an absent value only for a
\* device no measurement was derived for.
ReadRawReturnsFromZero ==
  api = "read_raw" /\ pc = "idle" /\ returned.kind \in {"list", "scalar"} =>
    \A d \in Devices :
      adcs[d].measurement # None =>
        returned.vals[d] = RSub(adcs[d].measurement, adcs[d].zero_offset)

(***************************************************************************)
(* C11: a device whose most recent batch yielded no measurement appears as *)
(* an absent value in the result of read_raw and of                        *)
(* read_weight(use_prev_read = False); neither returns a value computed    *)
(* from an earlier batch.                                                  *)
(***************************************************************************)
\* read_raw or read_weight(use_prev_read = False) has returned a value
FreshBatchReturned ==
  /\ api \in {"read_raw", "read_weight"}
  /\ ~use_prev_read
  /\ pc = "idle"
  /\ returned.kind \in {"list", "scalar"}

\* C11: in what a fresh batch returns, a device without a measurement for
\* that batch shows as None
NoStaleValue ==
  FreshBatchReturned =>
    \A d \in Devices : adcs[d].measurement = None => returned.vals[d] = None

(***************************************************************************)
(* C12: zero_offset and weight_multiple of every device are left unchanged *)
(* by read_raw, read_weight, power_down, power_up and reset, and by every  *)
(* cycle and batch reset inside them: no step of a call other than zero    *)
(* or tare changes a zero_offset, and no step of a call other than         *)
(* set_weight_multiples changes a weight_multiple.                         *)
(***************************************************************************)
CalibrationKept ==
  [][ /\ api' \notin {"zero", "tare"} =>
           \A d \in Devices : adcs'[d].zero_offset = adcs[d].zero_offset
      /\ api' # "set_weight_multiples" =>
           \A d \in Devices : adcs'[d].weight_multiple = adcs[d].weight_multiple
    ]_vars

\* a batch has been read and aggregated on a device zeroed to a non-zero
\* offset by the call before
BatchAfterZero ==
  /\ api \in {"read_raw", "read_weight"}
  /\ pc = "idle"
  /\ cycle >= 1
  /\ \E d \in Devices :
       adcs[d].zero_offset # IntRat(0) /\ adcs[d].measurement # None

(***************************************************************************)
(* C13: set_weight_multiples assigns values[k] to the device addressed by  *)
(* the k-th given index or the k-th given data-pin id, for every k and for *)
(* any order in which the indices or pins are listed, and leaves the       *)
(* weight_multiple of every device not addressed unchanged; with neither   *)
(* indices nor pins given, values[k] goes to device k.                     *)
(***************************************************************************)
\* the k-th value of the call is addressed to device d
AddressedTo(d, k) ==
  /\ k \in 1..Len(weight_args.weight_multiples)
  /\ IF weight_args.dout_pins.given
     THEN /\ k \in DOMAIN weight_args.dout_pins.list
          /\ weight_args.dout_pins.list[k] = adcs[d].dout_pin
     ELSE IF weight_args.adc_indices.given
     THEN /\ k \in DOMAIN weight_args.adc_indices.list
          /\ weight_args.adc_indices.list[k] = d - 1
     ELSE k = d

\* C13: set_weight_multiples gives values[k] to the device the k-th index or
\* pin addresses and leaves every other weight_multiple as it was
WeightsGoWhereAddressed ==
  [][ pc = "set_weight_multiples" =>
        \A d \in Devices :
          IF \E k \in 1..N : AddressedTo(d, k)
          THEN \A k \in 1..N :
                 AddressedTo(d, k) =>
                   adcs'[d].weight_multiple = weight_args.weight_multiples[k]
          ELSE adcs'[d].weight_multiple = adcs[d].weight_multiple
    ]_vars

(***************************************************************************)
(* C14: reset() performs power_down (clock driven low, then high and left  *)
(* high) and then power_up (clock driven low, followed by exactly one read *)
(* cycle), in that order, and returns success exactly when power_up's read *)
(* cycle succeeds; the clock line is low before any readiness poll and     *)
(* when any operation other than power_down returns.                       *)
(***************************************************************************)
InCycle ==
  pc \in {"read", "prepare", "poll", "prepared", "pulse", "shift", "finish",
          "gain", "read_ret"}

\* how far a reset() has come
ResetPhase ==
  CASE pc = "reset" -> 0
    [] pc = "power_down" -> 1
    [] pc = "power_down_high" -> 2
    [] pc = "reset_up" -> 3
    [] pc = "power_up" -> 4
    [] InCycle -> 5
    [] pc = "power_up_ret" -> 6
    [] pc = "reset_ret" -> 7
    [] OTHER -> 8

\* reset goes through its phases one by one, the read cycle is entered once,
\* the clock is driven as stated and the result is that of the read cycle
ResetInOrder ==
  /\ api = "reset" /\ pc # "idle" =>
       /\ \/ ResetPhase' = ResetPhase + 1
          \/ ResetPhase' = 5 /\ ResetPhase = 5 /\ pc' # "read"
       /\ pc' = "power_down_high" => sck' = 0
       /\ pc' = "reset_up" => sck = 0 /\ sck' = 1
       /\ pc = "reset_up" => sck = 1
       /\ pc = "power_up" => sck' = 0
       /\ pc' = "idle" => returned' = RetBool(read_result)
  /\ pc' = "poll" => sck' = 0

\* C14 as stated: the clock is low whenever a call other than power_down
\* returns a value
ResetAndClockAnyReturn ==
  [][ /\ ResetInOrder
      /\ pc # "idle" /\ pc' = "idle" /\ returned'.kind # "raise"
           /\ api # "power_down"
         => sck' = 0
    ]_vars

\* C14 with the clock's level on return stated for the calls that run a read
\* cycle
ResetAndClock ==
  [][ /\ ResetInOrder
      /\ pc # "idle" /\ pc' = "idle" /\ returned'.kind # "raise"
           /\ api # "power_down" /\ ~(api = "read_weight" /\ use_prev_read)
         => sck' = 0
    ]_vars

\* a reset() has returned success
ResetSucceeded ==
  /\ api = "reset" /\ pc = "idle"
  /\ returned = RetBool(TRUE) /\ read_result /\ sck = 0

(***************************************************************************)
(* C15: filter stability: for every batch on which aggregation succeeds,   *)
(* re-running the aggregation on the already-filtered set of survivors     *)
(* yields the same measurement.                                            *)
(***************************************************************************)
\* the ADC after aggregating, as a fresh batch, the reads a's aggregation kept
Reaggregated(a) ==
  calculate_measurement(
    [init_set_of_reads(a) EXCEPT
       !.ready = TRUE,
       !.reads = [i \in 1..Len(a.reads_filtered) |-> IntRat(a.reads_filtered[i])]])

FilterStable ==
  pc = "rr_ret" =>
    \A d \in Devices :
      adcs[d].measurement # None =>
        /\ Reaggregated(adcs[d]).ret
        /\ Reaggregated(adcs[d]).adc.measurement = adcs[d].measurement

\* C15 for batches of at most three valid values, from which the filter drops
\* nothing
FilterStableUpToThree ==
  pc = "rr_ret" =>
    \A d \in Devices :
      adcs[d].measurement # None /\ Len(ValidInts(adcs[d].reads)) <= 3 =>
        /\ adcs[d].reads_filtered = ValidInts(adcs[d].reads)
        /\ Reaggregated(adcs[d]).ret
        /\ Reaggregated(adcs[d]).adc.measurement = adcs[d].measurement

\* a batch of three with a value exactly two standard deviations from the
\* median has been aggregated
ThreeAtTheLimit ==
  /\ pc = "rr_ret"
  /\ adcs[1].reads = <<IntRat(0), IntRat(2), IntRat(3)>>
  /\ adcs[1].reads_filtered = <<0, 2, 3>>
  /\ adcs[1].measurement = Rat(5, 3)

(***************************************************************************)
(* C16: read_raw and read_weight called with readings_to_average outside   *)
(* [1, 10000] fail with an error before any read cycle is run: no clock    *)
(* pulse is issued and no device's batch history, measurement, weight or   *)
(* zero_offset is changed, for either value of use_prev_read.              *)
(***************************************************************************)
\* the call in progress is one the range check rejects
OutOfRangeCall ==
  /\ api \in {"read_raw", "read_weight"}
  /\ (readings_to_average < 1 \/ readings_to_average > READINGS_LIMIT)

\* C16: from the call to the ValueError no ADC field and no clock level
\* changes, no pulse is issued and no cycle is entered
RangeErrorTouchesNothing ==
  [][ OutOfRangeCall' =>
        /\ adcs' = adcs
        /\ sck' = sck
        /\ pulses' = 0
        /\ pc' \in {"read_raw", "read_weight", "idle"}
        /\ pc' = "idle" => returned' = Raised("ValueError")
    ]_vars

\* read_weight(0, use_prev_read = True) has failed on a device that holds a
\* batch
RangeErrorWithPrevRead ==
  /\ api = "read_weight" /\ use_prev_read /\ readings_to_average = 0
  /\ pc = "idle" /\ returned = Raised("ValueError")
  /\ \E d \in Devices : Len(adcs[d].reads) >= 1 /\ adcs[d].weight # None

(***************************************************************************)
(* C17: synchronized shifting: in every cycle, for each of the 24 data     *)
(* pulses, every device that is ready samples its data line exactly once   *)
(* after that pulse and before the next pulse, and a device that is not    *)
(* ready never samples; so after k data pulses every ready device has      *)
(* shifted exactly k bits, and _shift_and_read is invoked exactly 24 times *)
(* per ready device per cycle.                                             *)
(***************************************************************************)
\* the data pulses issued so far in the cycle
DataPulses == IF pulses < DATA_BITS THEN pulses ELSE DATA_BITS

\* a cycle has started: _read has reset every ADC for it
CycleRunning == InCycle /\ pc # "read"

\* one sample at a time, taken by a ready device at the shift step only
SampledOncePerPulse ==
  \A d \in Devices :
    \/ shifts'[d] = shifts[d]
    \/ shifts'[d] = 0
    \/ shifts'[d] = shifts[d] + 1 /\ pc = "shift" /\ pc' # "shift" /\ adcs[d].ready

PartialCycleEnds ==
  /\ ~all_or_nothing
  /\ pc # "read_ret" /\ pc' = "read_ret"
  /\ \E d \in Devices : ~adcs'[d].ready

\* while a cycle runs, a device that is not ready keeps its accumulator at 0
\* and its recorded reads as they were
NotReadyUntouched ==
  CycleRunning' =>
    \A d \in Devices :
      ~adcs'[d].ready =>
        /\ adcs'[d].current_raw_read = 0
        /\ appended'[d] = 0
        /\ pc # "read" => /\ adcs'[d].raw_reads = adcs[d].raw_reads
                          /\ adcs'[d].reads = adcs[d].reads

\* C18 as stated, for every such cycle
PartialCycleRecords ==
  [][ /\ NotReadyUntouched
      /\ PartialCycleEnds =>
           \A d \in Devices :
             adcs'[d].ready => shifts'[d] = DATA_BITS /\ appended'[d] = 1
    ]_vars

\* C18 for the cycles whose 24 data pulses are all in time; a cycle ended by a
\* data pulse of 60 us or longer records nothing for any device
PartialCycleRecordsInTime ==
  [][ /\ NotReadyUntouched
      /\ PartialCycleEnds =>
           \A d \in Devices :
             adcs'[d].ready =>
               IF read_result' \/ pulses' > DATA_BITS
               THEN /\ shifts'[d] = DATA_BITS /\ appended'[d] = 1
                    /\ Len(adcs'[d].raw_reads) >= 1
               ELSE shifts'[d] = pulses' - 1 /\ appended'[d] = 0
    ]_vars

\* a cycle has ended with the second of two devices read and the first, not
\* ready, left alone
SecondRecordedAlone ==
  /\ pc = "read_ret" /\ ~all_or_nothing
  /\ N = 2 /\ ~adcs[1].ready /\ adcs[2].ready
  /\ appended = <<0, 1>> /\ shifts = <<0, DATA_BITS>>
  /\ adcs[1].current_raw_read = 0 /\ adcs[1].raw_reads = <<>>
  /\ Len(adcs[2].raw_reads) = 1

(***************************************************************************)
(* C19: a read cycle reports failure if and only if readiness failed under *)
(* all_or_nothing or some clock pulse met or exceeded the 60-microsecond   *)
(* budget; after a pulse that exceeds the budget no further pulse is       *)
(* issued in that cycle, and the failure is returned as a value, never     *)
(* raised.                                                                 *)
(***************************************************************************)
\* _pulse_sck_high has been called more often than it has returned True: bit
\* and gain_i count the loop iterations whose pulse was in time
SlowPulseMet == pc # "shift" /\ pulses > bit + gain_i

SpreadTooLargeFails ==
  [][pc = "rr_calc" =>
       \A d \in Devices :
         LET xs == ValidInts(adcs[d].reads)
         IN adcs[d].ready /\ Len(xs) >= 2 /\ StdevOverMax(xs) =>
              /\ ~calculate_measurement(adcs[d]).ret
              /\ ~adcs'[d].ready
              /\ adcs'[d].measurement = None
              /\ adcs'[d].measurement_from_zero = None]_vars

\* [0, 0, 1000] was aggregated: read_stdev is 577.35, the ADC is not ready
\* and has no measurement
SpreadTooLarge ==
  /\ pc = "rr_ret"
  /\ adcs[1].reads = <<IntRat(0), IntRat(0), IntRat(1000)>>
  /\ adcs[1].read_stdev_sq = Rat(1000000, 3)
  /\ ~adcs[1].ready
  /\ adcs[1].measurement = None /\ adcs[1].measurement_from_zero = None

(***************************************************************************)
(* C21: at the end of a batch read_raw reduces every device's batch        *)
(* history to one number: a device that recorded at least one valid sample *)
(* in any cycle of the batch has the aggregation run on it and gets a      *)
(* measurement (subject to the spread and outlier filters), whatever its   *)
(* readiness or the outcome of the batch's final cycle.                    *)
(***************************************************************************)
EveryHistoryAggregated ==
  [][pc = "rr_calc" =>
       \A d \in Devices :
         ValidInts(adcs[d].reads) # <<>> =>
           /\ adcs'[d] = calculate_measurement(adcs[d]).adc
           /\ calculate_measurement(adcs[d]).ret => adcs'[d].measurement # None
    ]_vars

(***************************************************************************)
(* C22: every raw value stored in a device's batch history lies in         *)
(* 0 .. 2^24 - 1, because the accumulator is reset to 0 at the start of    *)
(* every cycle and a sample is recorded only after exactly 24 shifts; a    *)
(* cycle cut short by a failed pulse or a readiness abort records no       *)
(* partial accumulator, and at aggregation time a device's history holds   *)
(* at most readings_to_average entries, all from the current batch.        *)
(***************************************************************************)
\* a batch of read_raw is under way: its cycles, or the aggregation after them
InBatch ==
  \/ pc \in {"rr_loop", "rr_calc"}
  \/ CycleRunning /\ stack # <<>> /\ Head(stack) = "rr_loop"

\* C22, on the state reached by every step
HistoryOfWholeWords ==
  [][ \A d \in Devices :
        /\ Len(adcs'[d].reads) = Len(adcs'[d].raw_reads)
        /\ \A k \in 1..Len(adcs'[d].raw_reads) :
             adcs'[d].raw_reads[k] \in 0..(Pow2(DATA_BITS) - 1)
        /\ CycleRunning' =>
             /\ adcs'[d].current_raw_read < Pow2(shifts'[d])
             /\ pc' \in {"prepare", "poll", "prepared"} => adcs'[d].current_raw_read = 0
        /\ adcs'[d].raw_reads # adcs[d].raw_reads /\ adcs'[d].raw_reads # <<>> =>
             /\ pc = "finish" /\ adcs[d].ready /\ shifts[d] = DATA_BITS
             /\ adcs'[d].raw_reads = Append(adcs[d].raw_reads, adcs[d].current_raw_read)
        /\ pc # "read_ret" /\ pc' = "read_ret" /\ ~read_result' /\ pulses' <= DATA_BITS =>
             appended'[d] = 0 /\ adcs'[d].raw_reads = adcs[d].raw_reads
        /\ InBatch' =>
             /\ Len(adcs'[d].raw_reads) <= cycle'
             /\ cycle' <= readings_to_average'
        /\ pc' = "rr_calc" => cycle' = readings_to_average'
    ]_vars

\* a batch of three cycles reaches aggregation with two samples recorded, the
\* first of them 0xFFFFFE: one cycle was cut short
TwoOfThreeRecorded ==
  /\ pc = "rr_calc" /\ readings_to_average = 3 /\ cycle = 3
  /\ Len(adcs[1].raw_reads) = 2
  /\ adcs[1].raw_reads[1] = 16777214

(***************************************************************************)
(* C23: with all_or_nothing = True, within a batch all devices' batch      *)
(* histories have the same length after every cycle (each cycle records a  *)
(* sample for every device or for none), so the i-th sample of every       *)
(* device comes from the same cycle; with all_or_nothing = False the       *)
(* histories may differ in length.                                         *)
(***************************************************************************)
HistoriesInStep ==
  [][ all_or_nothing =>
        \A d, e \in Devices :
          /\ Len(adcs'[d].raw_reads) = Len(adcs'[e].raw_reads)
          /\ Len(adcs'[d].reads) = Len(adcs'[e].reads)
          /\ appended'[d] = appended'[e]
          /\ pc = "finish" => adcs[d].ready /\ appended'[d] = 1
    ]_vars

\* under all_or_nothing a batch of three cycles reaches aggregation with two
\* samples for each of two devices: one cycle recorded for neither
BothRecordedTwice ==
  /\ all_or_nothing /\ N = 2
  /\ pc = "rr_calc" /\ cycle = 3
  /\ Len(adcs[1].raw_reads) = 2 /\ Len(adcs[2].raw_reads) = 2

\* without all_or_nothing a batch has reached aggregation with histories of
\* different lengths
HistoriesDiffer ==
  /\ ~all_or_nothing /\ N = 2
  /\ pc = "rr_calc"
  /\ Len(adcs[1].raw_reads) # Len(adcs[2].raw_reads)

====
